---- MODULE Spec2Model ----
(***************************************************************************)
(* secret-stream: the six futures of src/lib.rs (Client, OwningClient,     *)
(* Server, OwningServer, ServerFilter, OwningServerFilter).  Each wraps a  *)
(* handshaker of the secret_handshake crate and, when that resolves with   *)
(* an outcome, builds a box_stream::BoxDuplex from the outcome's keys.     *)
(*                                                                         *)
(* One exchange is modelled: an initiator role and a responder role over a *)
(* paired in-memory transport; a second exchange runs beside it where two  *)
(* runs are compared or interleaved.  The roles (constructors and poll)    *)
(* are translated from src/lib.rs.  The handshakers, the outcome accessors *)
(* and BoxDuplex::new belong to other crates; they are modelled from the   *)
(* interface that spec.md states for the Authenticator and the Framer.     *)
(***************************************************************************)
EXTENDS Naturals, Sequences, FiniteSets, TLC

VARIABLES supplied, role, wire, gate, log, last, resolved, built, twin, statics

\* The exchange; with it, a second exchange of the same process (twin) and
\* the mutable state that all role instances of the process share (statics).
exchange == <<supplied, role, wire, gate, log, last, resolved, built>>
vars == <<supplied, role, wire, gate, log, last, resolved, built, twin, statics>>

----------------------------------------------------------------------------
(* Bounds of the model.                                                    *)

\* How many longterm signing keypairs exist (keypair k is pk k with sk k).
NumKeys == 2
\* How many network identifiers exist.
NumNets == 2
\* The most I/O operations the transport lets one poll perform.
MaxBudget == 2

KeyNames == <<"k1", "k2", "k3", "k4">>
NetNames == <<"net1", "net2", "net3", "net4">>

Keys == {KeyNames[i] : i \in 1..NumKeys}
Nets == {NetNames[i] : i \in 1..NumNets}

Sides == {"initiator", "responder"}
ClientKinds == {"Client", "OwningClient"}
ServerKinds == {"Server", "OwningServer", "ServerFilter", "OwningServerFilter"}
GatedKinds == {"ServerFilter", "OwningServerFilter"}

\* The two transport objects of the pair, as the callers hold them.
StreamOf(side) == [id |-> side, open |-> TRUE]
NoStream == [id |-> "none", open |-> FALSE]

\* What the AsyncBool may do when it is polled: stay pending, resolve to a
\* boolean, or fail with an error of its own.
FilterErrors == {"lookup_failed", "lookup_timeout"}
Decisions == {"pending", "true", "false"} \cup FilterErrors

----------------------------------------------------------------------------
(* Symbolic cryptography of the handshake.                                 *)

\* The secret both peers derive when their views of the exchange agree.
Secret(net, client_eph, server_eph, client_pk, server_pk) ==
    [net |-> net, client_eph |-> client_eph, server_eph |-> server_eph,
     client_pk |-> client_pk, server_pk |-> server_pk]

\* A box-stream key: the secret, bound to the longterm key of the receiver.
Key(secret, pk) == [sort |-> "key", secret |-> secret, for |-> pk]

\* A box-stream nonce: bound to the ephemeral key of the receiver.
Nonce(net, eph) == [sort |-> "nonce", net |-> net, eph |-> eph]

ClientOutcome(h) ==
    LET s == Secret(h.net, h.eph_pk, h.peer_eph, h.lt_pk, h.peer_pk)
    IN  [encryption_key   |-> Key(s, h.peer_pk),
         decryption_key   |-> Key(s, h.lt_pk),
         encryption_nonce |-> Nonce(h.net, h.peer_eph),
         decryption_nonce |-> Nonce(h.net, h.eph_pk),
         peer_longterm_pk |-> h.peer_pk]

ServerOutcome(h) ==
    LET s == Secret(h.net, h.peer_eph, h.eph_pk, h.peer_pk, h.lt_pk)
    IN  [encryption_key   |-> Key(s, h.peer_pk),
         decryption_key   |-> Key(s, h.lt_pk),
         encryption_nonce |-> Nonce(h.net, h.peer_eph),
         decryption_nonce |-> Nonce(h.net, h.eph_pk),
         peer_longterm_pk |-> h.peer_pk]

\* The accessors of an outcome.
encryption_key(outcome) == outcome.encryption_key
decryption_key(outcome) == outcome.decryption_key
encryption_nonce(outcome) == outcome.encryption_nonce
decryption_nonce(outcome) == outcome.decryption_nonce
peer_longterm_pk(outcome) == outcome.peer_longterm_pk

\* BoxDuplex::new(stream, enc_key, dec_key, enc_nonce, dec_nonce).
BoxDuplexNew(stream, enc_key, dec_key, enc_nonce, dec_nonce) ==
    [stream |-> stream, enc_key |-> enc_key, dec_key |-> dec_key,
     enc_nonce |-> enc_nonce, dec_nonce |-> dec_nonce]

----------------------------------------------------------------------------
(* What a poll returns.                                                    *)

Running == [tag |-> "Running"]
Pending == [tag |-> "Pending"]
Panic == [tag |-> "Panic"]
Ready(outcome, stream) == [tag |-> "Ready", outcome |-> outcome, stream |-> stream]
Err(e, stream) == [tag |-> "Err", err |-> e, stream |-> stream]
Nothing == [tag |-> "Nothing"]

\* HandshakeError, and the two further variants of FilteringHandshakeError.
HandshakeError(cause) == [kind |-> "HandshakeError", cause |-> cause]
Rejected == [kind |-> "Rejected", cause |-> "filter_fn"]
FilterFnError(e) == [kind |-> "FilterFnError", cause |-> e]

----------------------------------------------------------------------------
(* The messages of the exchange.                                           *)

Msg(type, h) ==
    [type |-> type, net |-> h.net, eph |-> h.eph_pk,
     to |-> h.peer_pk, pk |-> h.lt_pk, signer |-> h.lt_sk]

----------------------------------------------------------------------------
(* The handshakers (secret_handshake crate).                               *)

ClientHandshakerNew(stream, network_identifier, client_longterm_pk, client_longterm_sk, client_ephemeral_pk, client_ephemeral_sk, server_longterm_pk) ==
    [is_client |-> TRUE, stream |-> stream, net |-> network_identifier,
     lt_pk |-> client_longterm_pk, lt_sk |-> client_longterm_sk,
     eph_pk |-> client_ephemeral_pk, eph_sk |-> client_ephemeral_sk,
     peer_pk |-> server_longterm_pk, peer_eph |-> "none",
     filter_fn |-> "none", state |-> "WriteMsg1",
     verified |-> FALSE]

OwningClientHandshakerNew(stream, network_identifier, client_longterm_pk, client_longterm_sk, client_ephemeral_pk, client_ephemeral_sk, server_longterm_pk) ==
    ClientHandshakerNew(stream, network_identifier, client_longterm_pk,
                        client_longterm_sk, client_ephemeral_pk,
                        client_ephemeral_sk, server_longterm_pk)

ServerHandshakerWithFilterNew(stream, filter_fn, network_identifier, server_longterm_pk, server_longterm_sk, server_ephemeral_pk, server_ephemeral_sk) ==
    [is_client |-> FALSE, stream |-> stream, net |-> network_identifier,
     lt_pk |-> server_longterm_pk, lt_sk |-> server_longterm_sk,
     eph_pk |-> server_ephemeral_pk, eph_sk |-> server_ephemeral_sk,
     peer_pk |-> "none", peer_eph |-> "none",
     filter_fn |-> filter_fn, state |-> "ReadMsg1",
     verified |-> FALSE]

OwningServerHandshakerWithFilterNew(stream, filter_fn, network_identifier, server_longterm_pk, server_longterm_sk, server_ephemeral_pk, server_ephemeral_sk) ==
    ServerHandshakerWithFilterNew(stream, filter_fn, network_identifier,
                                  server_longterm_pk, server_longterm_sk,
                                  server_ephemeral_pk, server_ephemeral_sk)

ServerHandshakerNew(stream, network_identifier, server_longterm_pk, server_longterm_sk, server_ephemeral_pk, server_ephemeral_sk) ==
    ServerHandshakerWithFilterNew(stream, "none", network_identifier,
                                  server_longterm_pk, server_longterm_sk,
                                  server_ephemeral_pk, server_ephemeral_sk)

OwningServerHandshakerNew(stream, network_identifier, server_longterm_pk, server_longterm_sk, server_ephemeral_pk, server_ephemeral_sk) ==
    ServerHandshakerNew(stream, network_identifier, server_longterm_pk,
                        server_longterm_sk, server_ephemeral_pk,
                        server_ephemeral_sk)

----------------------------------------------------------------------------
(* One poll of a handshaker.  w is [h, wire, gate, log, statics, ret]: the *)
(* handshaker, the two directions of the transport pair, the filter        *)
(* function's bookkeeping, the record of what the handshakers of this side *)
(* have written and reported, the process-wide state (which a handshaker   *)
(* leaves alone), and the value the poll returns (Running while it runs).  *)
(* cx holds what the surroundings decide during this poll: how many        *)
(* transport operations go through before the transport would block        *)
(* (budget), whether it then fails instead of blocking (fault), what the   *)
(* AsyncBool does when polled (decision) and what a poll after completion  *)
(* does (again).                                                           *)

\* The handshaker resolves: it gives up the stream and is done.
Wrote(type) == [ev |-> type, result |-> Nothing]
Reported(result) == [ev |-> "report", result |-> result]

Finish(w, result) ==
    [w EXCEPT !.h.stream = NoStream, !.h.state = "Done",
              !.log = Append(@, Reported(result)), !.ret = result]

Send(w, type, next) ==
    IF w.h.is_client
    THEN [w EXCEPT !.wire.c2s = Append(@, Msg(type, w.h)), !.h.state = next,
                   !.log = Append(@, Wrote(type))]
    ELSE [w EXCEPT !.wire.s2c = Append(@, Msg(type, w.h)), !.h.state = next,
                   !.log = Append(@, Wrote(type))]

Inbox(w) == IF w.h.is_client THEN w.wire.s2c ELSE w.wire.c2s

Receive(w) ==
    IF w.h.is_client
    THEN [w EXCEPT !.wire.s2c = Tail(@)]
    ELSE [w EXCEPT !.wire.c2s = Tail(@)]

\* The checks a handshaker makes of each message it reads.
ValidMsg1(h, m) == m.net = h.net
ValidMsg2(h, m) == m.net = h.net
ValidMsg3(h, m) ==
    /\ m.net = h.net
    /\ m.to = h.lt_pk
    /\ m.to = h.lt_sk
    /\ m.signer = m.pk
ValidMsg4(h, m) ==
    /\ m.net = h.net
    /\ m.signer = h.peer_pk

\* The filter function is called, with the key msg3 has just proven.
InvokeFilter(w) ==
    [w EXCEPT !.gate.calls = @ + 1,
              !.gate.args = Append(@, w.h.peer_pk),
              !.gate.verified = Append(@, w.h.verified),
              !.h.state = "Filter"]

PollFilter(w, cx) ==
    CASE cx.decision = "pending" -> [w EXCEPT !.ret = Pending]
      [] cx.decision = "true" ->
            [w EXCEPT !.gate.value = "true", !.h.state = "WriteMsg4"]
      [] cx.decision = "false" ->
            Finish([w EXCEPT !.gate.value = "false"], Err(Rejected, w.h.stream))
      [] OTHER ->
            Finish([w EXCEPT !.gate.value = cx.decision],
                   Err(FilterFnError(cx.decision), w.h.stream))

Step(w, cx) ==
    LET h == w.h
        m == Head(Inbox(w))
        got == Receive(w)
    IN
    CASE h.state = "WriteMsg1" -> Send(w, "Msg1", "ReadMsg2")
      [] h.state = "ReadMsg2" ->
            IF Inbox(w) = << >> THEN [w EXCEPT !.ret = Pending]
            ELSE IF ValidMsg2(h, m)
            THEN [got EXCEPT !.h.peer_eph = m.eph, !.h.state = "WriteMsg3"]
            ELSE Finish(got, Err(HandshakeError("InvalidMsg2"), h.stream))
      [] h.state = "WriteMsg3" -> Send(w, "Msg3", "ReadMsg4")
      [] h.state = "ReadMsg4" ->
            IF Inbox(w) = << >> THEN [w EXCEPT !.ret = Pending]
            ELSE IF ValidMsg4(h, m)
            THEN Finish([got EXCEPT !.h.verified = TRUE],
                        Ready(ClientOutcome(h), h.stream))
            ELSE Finish(got, Err(HandshakeError("InvalidMsg4"), h.stream))
      [] h.state = "ReadMsg1" ->
            IF Inbox(w) = << >> THEN [w EXCEPT !.ret = Pending]
            ELSE IF ValidMsg1(h, m)
            THEN [got EXCEPT !.h.peer_eph = m.eph, !.h.state = "WriteMsg2"]
            ELSE Finish(got, Err(HandshakeError("InvalidMsg1"), h.stream))
      [] h.state = "WriteMsg2" -> Send(w, "Msg2", "ReadMsg3")
      [] h.state = "ReadMsg3" ->
            IF Inbox(w) = << >> THEN [w EXCEPT !.ret = Pending]
            ELSE IF ValidMsg3(h, m)
            THEN LET v == [got EXCEPT !.h.peer_pk = m.pk, !.h.verified = TRUE]
                 IN  IF h.filter_fn = "none"
                     THEN [v EXCEPT !.h.state = "WriteMsg4"]
                     ELSE InvokeFilter(v)
            ELSE Finish(got, Err(HandshakeError("InvalidMsg3"), h.stream))
      [] h.state = "Filter" -> PollFilter(w, cx)
      [] h.state = "WriteMsg4" ->
            Finish(Send(w, "Msg4", "Done"), Ready(ServerOutcome(h), h.stream))
      [] OTHER ->
            \* Done: the stream has been given away.
            [w EXCEPT !.ret = IF cx.again = "Panic" THEN Panic ELSE Pending]

\* The transport operations a step performs.
Cost(state) == IF state \in {"Filter", "Done"} THEN 0 ELSE 1

RECURSIVE Run(_, _, _)
Run(w, n, cx) ==
    IF w.ret # Running THEN w
    ELSE IF Cost(w.h.state) > n
    THEN IF cx.fault
         THEN Finish(w, Err(HandshakeError("IoError"), w.h.stream))
         ELSE [w EXCEPT !.ret = Pending]
    ELSE Run(Step(w, cx), n - Cost(w.h.state), cx)

HandshakerPoll(h, env, cx) ==
    Run([h |-> h, wire |-> env.wire, gate |-> env.gate, log |-> env.log,
         statics |-> env.statics, ret |-> Running],
        cx.budget, cx)

ClientHandshakerPoll(h, env, cx) == HandshakerPoll(h, env, cx)
OwningClientHandshakerPoll(h, env, cx) == HandshakerPoll(h, env, cx)
ServerHandshakerPoll(h, env, cx) == HandshakerPoll(h, env, cx)
OwningServerHandshakerPoll(h, env, cx) == HandshakerPoll(h, env, cx)
ServerHandshakerWithFilterPoll(h, env, cx) == HandshakerPoll(h, env, cx)
OwningServerHandshakerWithFilterPoll(h, env, cx) == HandshakerPoll(h, env, cx)

----------------------------------------------------------------------------
(* The six roles of src/lib.rs.  A role is a tuple struct around its       *)
(* handshaker (field 0, here hs).                                          *)

Client(hs) == [kind |-> "Client", hs |-> hs]
OwningClient(hs) == [kind |-> "OwningClient", hs |-> hs]
Server(hs) == [kind |-> "Server", hs |-> hs]
OwningServer(hs) == [kind |-> "OwningServer", hs |-> hs]
ServerFilter(hs) == [kind |-> "ServerFilter", hs |-> hs]
OwningServerFilter(hs) == [kind |-> "OwningServerFilter", hs |-> hs]

\* A variant of Client::new that always joins the main network.
ClientNewMainNet(stream, network_identifier, client_longterm_pk, client_longterm_sk, client_ephemeral_pk, client_ephemeral_sk, server_longterm_pk) ==
    Client(ClientHandshakerNew(stream,
                               NetNames[1],
                               client_longterm_pk,
                               client_longterm_sk,
                               client_ephemeral_pk,
                               client_ephemeral_sk,
                               server_longterm_pk))

ClientNew(stream, network_identifier, client_longterm_pk, client_longterm_sk, client_ephemeral_pk, client_ephemeral_sk, server_longterm_pk) ==
    Client(ClientHandshakerNew(stream,
                               network_identifier,
                               client_longterm_pk,
                               client_longterm_sk,
                               client_ephemeral_pk,
                               client_ephemeral_sk,
                               server_longterm_pk))

\* A variant of OwningClient::new that passes the client's own longterm
\* public key where the handshaker expects the server's.
OwningClientNewOwnKeyAsPeer(stream, network_identifier, client_longterm_pk, client_longterm_sk, client_ephemeral_pk, client_ephemeral_sk, server_longterm_pk) ==
    OwningClient(OwningClientHandshakerNew(stream,
                                           network_identifier,
                                           client_longterm_pk,
                                           client_longterm_sk,
                                           client_ephemeral_pk,
                                           client_ephemeral_sk,
                                           client_longterm_pk))

OwningClientNew(stream, network_identifier, client_longterm_pk, client_longterm_sk, client_ephemeral_pk, client_ephemeral_sk, server_longterm_pk) ==
    OwningClient(OwningClientHandshakerNew(stream,
                                           network_identifier,
                                           client_longterm_pk,
                                           client_longterm_sk,
                                           client_ephemeral_pk,
                                           client_ephemeral_sk,
                                           server_longterm_pk))

ServerNew(stream, network_identifier, server_longterm_pk, server_longterm_sk, server_ephemeral_pk, server_ephemeral_sk) ==
    Server(ServerHandshakerNew(stream,
                               network_identifier,
                               server_longterm_pk,
                               server_longterm_sk,
                               server_ephemeral_pk,
                               server_ephemeral_sk))

OwningServerNew(stream, network_identifier, server_longterm_pk, server_longterm_sk, server_ephemeral_pk, server_ephemeral_sk) ==
    OwningServer(OwningServerHandshakerNew(stream,
                                           network_identifier,
                                           server_longterm_pk,
                                           server_longterm_sk,
                                           server_ephemeral_pk,
                                           server_ephemeral_sk))

\* A variant of ServerFilter::new with the body of Server::new: the filter
\* function never reaches the handshaker.
ServerFilterNewUngated(stream, filter_fn, network_identifier, server_longterm_pk, server_longterm_sk, server_ephemeral_pk, server_ephemeral_sk) ==
    ServerFilter(ServerHandshakerNew(stream,
                                     network_identifier,
                                     server_longterm_pk,
                                     server_longterm_sk,
                                     server_ephemeral_pk,
                                     server_ephemeral_sk))

ServerFilterNew(stream, filter_fn, network_identifier, server_longterm_pk, server_longterm_sk, server_ephemeral_pk, server_ephemeral_sk) ==
    ServerFilter(ServerHandshakerWithFilterNew(stream,
                                               filter_fn,
                                               network_identifier,
                                               server_longterm_pk,
                                               server_longterm_sk,
                                               server_ephemeral_pk,
                                               server_ephemeral_sk))

\* A variant of OwningServerFilter::new with the body of OwningServer::new.
OwningServerFilterNewUngated(stream, filter_fn, network_identifier, server_longterm_pk, server_longterm_sk, server_ephemeral_pk, server_ephemeral_sk) ==
    OwningServerFilter(OwningServerHandshakerNew(stream,
                                                 network_identifier,
                                                 server_longterm_pk,
                                                 server_longterm_sk,
                                                 server_ephemeral_pk,
                                                 server_ephemeral_sk))

OwningServerFilterNew(stream, filter_fn, network_identifier, server_longterm_pk, server_longterm_sk, server_ephemeral_pk, server_ephemeral_sk) ==
    OwningServerFilter(OwningServerHandshakerWithFilterNew(stream,
                                                           filter_fn,
                                                           network_identifier,
                                                           server_longterm_pk,
                                                           server_longterm_sk,
                                                           server_ephemeral_pk,
                                                           server_ephemeral_sk))

\* What a role's poll leaves behind: the role with its handshaker as the
\* handshaker's poll left it; the transport pair, the filter bookkeeping and
\* the side's record as that poll left them; the value the role's poll
\* returns.
Polled(self, w, ret) ==
    [self |-> [self EXCEPT !.hs = w.h], wire |-> w.wire, gate |-> w.gate,
     log |-> w.log, statics |-> w.statics, ret |-> ret]

\* Poll<Item, Error> of the initiator roles and of the responder roles.
ReadyDuplex(duplex) == [tag |-> "Ready", duplex |-> duplex]
ReadyDuplexAndKey(duplex, pk) ==
    [tag |-> "Ready", duplex |-> duplex, peer_pk |-> pk]

\* try_ready!(self.0.poll(cx)): anything but Ok(Ready(..)) is returned as it
\* is (Ok(Pending), Err((e, stream)); a panic unwinds through the role).
\* A variant of Client::poll that keeps a handle on the stream it hands back
\* with an error.
ClientPollKeepingStream(self, env, cx) ==
    LET w == ClientHandshakerPoll(self.hs, env, cx)
    IN  IF w.ret.tag = "Err"
        THEN Polled(self, [w EXCEPT !.h.stream = w.ret.stream], w.ret)
        ELSE IF w.ret.tag # "Ready" THEN Polled(self, w, w.ret)
        ELSE LET outcome == w.ret.outcome
                 stream == w.ret.stream
             IN  Polled(self, w,
                        ReadyDuplex(BoxDuplexNew(stream,
                                                 encryption_key(outcome),
                                                 decryption_key(outcome),
                                                 encryption_nonce(outcome),
                                                 decryption_nonce(outcome))))

\* A variant of Client::poll that, on an error, starts the handshake again
\* on the stream the error came with and reports Pending.
ClientPollRetrying(self, env, cx) ==
    LET w == ClientHandshakerPoll(self.hs, env, cx)
        h == self.hs
    IN  IF w.ret.tag = "Err"
        THEN Polled(self,
                    [w EXCEPT !.h = ClientHandshakerNew(w.ret.stream, h.net,
                                                        h.lt_pk, h.lt_sk,
                                                        h.eph_pk, h.eph_sk,
                                                        h.peer_pk)],
                    Pending)
        ELSE IF w.ret.tag # "Ready" THEN Polled(self, w, w.ret)
        ELSE LET outcome == w.ret.outcome
                 stream == w.ret.stream
             IN  Polled(self, w,
                        ReadyDuplex(BoxDuplexNew(stream,
                                                 encryption_key(outcome),
                                                 decryption_key(outcome),
                                                 encryption_nonce(outcome),
                                                 decryption_nonce(outcome))))

ClientPoll(self, env, cx) ==
    LET w == ClientHandshakerPoll(self.hs, env, cx)
    IN  IF w.ret.tag # "Ready" THEN Polled(self, w, w.ret)
        ELSE LET outcome == w.ret.outcome
                 stream == w.ret.stream
             IN  Polled(self, w,
                        ReadyDuplex(BoxDuplexNew(stream,
                                                 encryption_key(outcome),
                                                 decryption_key(outcome),
                                                 encryption_nonce(outcome),
                                                 decryption_nonce(outcome))))

\* A variant of OwningClient::poll that passes the decryption values where
\* BoxDuplex::new expects the encryption values, and the other way round.
OwningClientPollSwapped(self, env, cx) ==
    LET w == OwningClientHandshakerPoll(self.hs, env, cx)
    IN  IF w.ret.tag # "Ready" THEN Polled(self, w, w.ret)
        ELSE LET outcome == w.ret.outcome
                 stream == w.ret.stream
             IN  Polled(self, w,
                        ReadyDuplex(BoxDuplexNew(stream,
                                                 decryption_key(outcome),
                                                 encryption_key(outcome),
                                                 decryption_nonce(outcome),
                                                 encryption_nonce(outcome))))

\* A variant of OwningClient::poll for which framing is a suspension point:
\* in the poll in which the handshake succeeds it constructs the BoxDuplex
\* and reports Pending instead of yielding it.
OwningClientPollFramingSuspends(self, env, cx) ==
    LET w == OwningClientHandshakerPoll(self.hs, env, cx)
    IN  IF w.ret.tag # "Ready" THEN Polled(self, w, w.ret)
        ELSE LET outcome == w.ret.outcome
                 stream == w.ret.stream
             IN  Polled(self, w,
                        [tag |-> "Pending",
                         duplex |-> BoxDuplexNew(stream,
                                                 encryption_key(outcome),
                                                 decryption_key(outcome),
                                                 encryption_nonce(outcome),
                                                 decryption_nonce(outcome))])

OwningClientPoll(self, env, cx) ==
    LET w == OwningClientHandshakerPoll(self.hs, env, cx)
    IN  IF w.ret.tag # "Ready" THEN Polled(self, w, w.ret)
        ELSE LET outcome == w.ret.outcome
                 stream == w.ret.stream
             IN  Polled(self, w,
                        ReadyDuplex(BoxDuplexNew(stream,
                                                 encryption_key(outcome),
                                                 decryption_key(outcome),
                                                 encryption_nonce(outcome),
                                                 decryption_nonce(outcome))))

\* A variant of Server::poll that keeps the first outcome any Server of the
\* process has got in a static item, and frames every later stream, of
\* whichever Server, with the keys of that outcome.
ServerPollCachingOutcome(self, env, cx) ==
    LET w == ServerHandshakerPoll(self.hs, env, cx)
    IN  IF w.ret.tag # "Ready" THEN Polled(self, w, w.ret)
        ELSE LET outcome == IF w.statics.tag = "NoStatics" THEN w.ret.outcome
                            ELSE w.statics.outcome
                 stream == w.ret.stream
             IN  Polled(self,
                        [w EXCEPT !.statics = [tag |-> "Cached", outcome |-> outcome]],
                        ReadyDuplexAndKey(BoxDuplexNew(stream,
                                                       encryption_key(outcome),
                                                       decryption_key(outcome),
                                                       encryption_nonce(outcome),
                                                       decryption_nonce(outcome)),
                                          peer_longterm_pk(outcome)))

\* A variant of Server::poll that swallows the handshaker's error: the poll
\* reports Pending, and the stream that came with the error is lost.
ServerPollSwallowingError(self, env, cx) ==
    LET w == ServerHandshakerPoll(self.hs, env, cx)
    IN  IF w.ret.tag = "Err" THEN Polled(self, w, Pending)
        ELSE IF w.ret.tag # "Ready" THEN Polled(self, w, w.ret)
        ELSE LET outcome == w.ret.outcome
                 stream == w.ret.stream
             IN  Polled(self, w,
                        ReadyDuplexAndKey(BoxDuplexNew(stream,
                                                       encryption_key(outcome),
                                                       decryption_key(outcome),
                                                       encryption_nonce(outcome),
                                                       decryption_nonce(outcome)),
                                          peer_longterm_pk(outcome)))

\* A variant of Server::poll that yields the server's own longterm public
\* key where the peer's is expected.
ServerPollOwnKey(self, env, cx) ==
    LET w == ServerHandshakerPoll(self.hs, env, cx)
    IN  IF w.ret.tag # "Ready" THEN Polled(self, w, w.ret)
        ELSE LET outcome == w.ret.outcome
                 stream == w.ret.stream
             IN  Polled(self, w,
                        ReadyDuplexAndKey(BoxDuplexNew(stream,
                                                       encryption_key(outcome),
                                                       decryption_key(outcome),
                                                       encryption_nonce(outcome),
                                                       decryption_nonce(outcome)),
                                          self.hs.lt_pk))

ServerPoll(self, env, cx) ==
    LET w == ServerHandshakerPoll(self.hs, env, cx)
    IN  IF w.ret.tag # "Ready" THEN Polled(self, w, w.ret)
        ELSE LET outcome == w.ret.outcome
                 stream == w.ret.stream
             IN  Polled(self, w,
                        ReadyDuplexAndKey(BoxDuplexNew(stream,
                                                       encryption_key(outcome),
                                                       decryption_key(outcome),
                                                       encryption_nonce(outcome),
                                                       decryption_nonce(outcome)),
                                          peer_longterm_pk(outcome)))

\* A variant of OwningServer::poll for which framing can fail: the poll in
\* which the handshake succeeds reports an error of the framing layer, with
\* the stream.
OwningServerPollFramingFails(self, env, cx) ==
    LET w == OwningServerHandshakerPoll(self.hs, env, cx)
    IN  IF w.ret.tag # "Ready" THEN Polled(self, w, w.ret)
        ELSE Polled(self, w, Err(HandshakeError("Framing"), w.ret.stream))

\* A variant of OwningServer::poll with the body of OwningClient::poll: the
\* peer's key is not yielded.
OwningServerPollNoKey(self, env, cx) ==
    LET w == OwningServerHandshakerPoll(self.hs, env, cx)
    IN  IF w.ret.tag # "Ready" THEN Polled(self, w, w.ret)
        ELSE LET outcome == w.ret.outcome
                 stream == w.ret.stream
             IN  Polled(self, w,
                        ReadyDuplex(BoxDuplexNew(stream,
                                                 encryption_key(outcome),
                                                 decryption_key(outcome),
                                                 encryption_nonce(outcome),
                                                 decryption_nonce(outcome))))

OwningServerPoll(self, env, cx) ==
    LET w == OwningServerHandshakerPoll(self.hs, env, cx)
    IN  IF w.ret.tag # "Ready" THEN Polled(self, w, w.ret)
        ELSE LET outcome == w.ret.outcome
                 stream == w.ret.stream
             IN  Polled(self, w,
                        ReadyDuplexAndKey(BoxDuplexNew(stream,
                                                       encryption_key(outcome),
                                                       decryption_key(outcome),
                                                       encryption_nonce(outcome),
                                                       decryption_nonce(outcome)),
                                          peer_longterm_pk(outcome)))

\* A variant of ServerFilter::poll that passes the two keys to BoxDuplex::new
\* in the wrong order.
ServerFilterPollKeysSwapped(self, env, cx) ==
    LET w == ServerHandshakerWithFilterPoll(self.hs, env, cx)
    IN  IF w.ret.tag # "Ready" THEN Polled(self, w, w.ret)
        ELSE LET outcome == w.ret.outcome
                 stream == w.ret.stream
             IN  Polled(self, w,
                        ReadyDuplexAndKey(BoxDuplexNew(stream,
                                                       decryption_key(outcome),
                                                       encryption_key(outcome),
                                                       encryption_nonce(outcome),
                                                       decryption_nonce(outcome)),
                                          peer_longterm_pk(outcome)))

\* A variant of ServerFilter::poll that closes the stream before it hands it
\* back with the error.
ServerFilterPollClosing(self, env, cx) ==
    LET w == ServerHandshakerWithFilterPoll(self.hs, env, cx)
    IN  IF w.ret.tag = "Err"
        THEN Polled(self, w, [w.ret EXCEPT !.stream.open = FALSE])
        ELSE IF w.ret.tag # "Ready" THEN Polled(self, w, w.ret)
        ELSE LET outcome == w.ret.outcome
                 stream == w.ret.stream
             IN  Polled(self, w,
                        ReadyDuplexAndKey(BoxDuplexNew(stream,
                                                       encryption_key(outcome),
                                                       decryption_key(outcome),
                                                       encryption_nonce(outcome),
                                                       decryption_nonce(outcome)),
                                          peer_longterm_pk(outcome)))

\* A variant of ServerFilter::poll with the error type of Server::poll: every
\* error is converted to a plain HandshakeError.
ServerFilterPollPlainError(self, env, cx) ==
    LET w == ServerHandshakerWithFilterPoll(self.hs, env, cx)
    IN  IF w.ret.tag = "Err"
        THEN Polled(self, w, [w.ret EXCEPT !.err = HandshakeError(w.ret.err.cause)])
        ELSE IF w.ret.tag # "Ready" THEN Polled(self, w, w.ret)
        ELSE LET outcome == w.ret.outcome
                 stream == w.ret.stream
             IN  Polled(self, w,
                        ReadyDuplexAndKey(BoxDuplexNew(stream,
                                                       encryption_key(outcome),
                                                       decryption_key(outcome),
                                                       encryption_nonce(outcome),
                                                       decryption_nonce(outcome)),
                                          peer_longterm_pk(outcome)))

ServerFilterPoll(self, env, cx) ==
    LET w == ServerHandshakerWithFilterPoll(self.hs, env, cx)
    IN  IF w.ret.tag # "Ready" THEN Polled(self, w, w.ret)
        ELSE LET outcome == w.ret.outcome
                 stream == w.ret.stream
             IN  Polled(self, w,
                        ReadyDuplexAndKey(BoxDuplexNew(stream,
                                                       encryption_key(outcome),
                                                       decryption_key(outcome),
                                                       encryption_nonce(outcome),
                                                       decryption_nonce(outcome)),
                                          peer_longterm_pk(outcome)))

\* A variant of OwningServerFilter::poll that passes the two nonces to
\* BoxDuplex::new in the wrong order.
OwningServerFilterPollNoncesSwapped(self, env, cx) ==
    LET w == OwningServerHandshakerWithFilterPoll(self.hs, env, cx)
    IN  IF w.ret.tag # "Ready" THEN Polled(self, w, w.ret)
        ELSE LET outcome == w.ret.outcome
                 stream == w.ret.stream
             IN  Polled(self, w,
                        ReadyDuplexAndKey(BoxDuplexNew(stream,
                                                       encryption_key(outcome),
                                                       decryption_key(outcome),
                                                       decryption_nonce(outcome),
                                                       encryption_nonce(outcome)),
                                          peer_longterm_pk(outcome)))

\* A variant of OwningServerFilter::poll that reports a failure of the filter
\* function's future as a rejection.
OwningServerFilterPollFailureAsDenial(self, env, cx) ==
    LET w == OwningServerHandshakerWithFilterPoll(self.hs, env, cx)
    IN  IF w.ret.tag = "Err" /\ w.ret.err.kind = "FilterFnError"
        THEN Polled(self, w, [w.ret EXCEPT !.err = Rejected])
        ELSE IF w.ret.tag # "Ready" THEN Polled(self, w, w.ret)
        ELSE LET outcome == w.ret.outcome
                 stream == w.ret.stream
             IN  Polled(self, w,
                        ReadyDuplexAndKey(BoxDuplexNew(stream,
                                                       encryption_key(outcome),
                                                       decryption_key(outcome),
                                                       encryption_nonce(outcome),
                                                       decryption_nonce(outcome)),
                                          peer_longterm_pk(outcome)))

OwningServerFilterPoll(self, env, cx) ==
    LET w == OwningServerHandshakerWithFilterPoll(self.hs, env, cx)
    IN  IF w.ret.tag # "Ready" THEN Polled(self, w, w.ret)
        ELSE LET outcome == w.ret.outcome
                 stream == w.ret.stream
             IN  Polled(self, w,
                        ReadyDuplexAndKey(BoxDuplexNew(stream,
                                                       encryption_key(outcome),
                                                       decryption_key(outcome),
                                                       encryption_nonce(outcome),
                                                       decryption_nonce(outcome)),
                                          peer_longterm_pk(outcome)))

----------------------------------------------------------------------------
(* The exchange: what the two callers supply, and their polls.             *)

\* The arguments a caller passes to its role's constructor.
InitiatorArgs ==
    [kind : ClientKinds, stream : {StreamOf("initiator")},
     filter_fn : {"none"}, network_identifier : Nets,
     longterm_pk : Keys, longterm_sk : Keys,
     ephemeral_pk : {"eph_c"}, ephemeral_sk : {"eph_c"},
     server_longterm_pk : Keys]

\* The responder holds keypair k1 on network net1: the names of keys and
\* networks are interchangeable, so only the initiator's choices of them
\* (its own halves, the key it believes the server has, its network) vary.
ResponderArgs ==
    {a \in [kind : ServerKinds, stream : {StreamOf("responder")},
            filter_fn : {"none", "filter_fn"},
            network_identifier : {NetNames[1]},
            longterm_pk : {KeyNames[1]}, longterm_sk : {KeyNames[1]},
            ephemeral_pk : {"eph_s"}, ephemeral_sk : {"eph_s"},
            server_longterm_pk : {"none"}] :
        (a.filter_fn = "filter_fn") <=> (a.kind \in GatedKinds)}

Construct(a) ==
    CASE a.kind = "Client" ->
            ClientNew(a.stream, a.network_identifier, a.longterm_pk,
                      a.longterm_sk, a.ephemeral_pk, a.ephemeral_sk,
                      a.server_longterm_pk)
      [] a.kind = "OwningClient" ->
            OwningClientNew(a.stream, a.network_identifier, a.longterm_pk,
                            a.longterm_sk, a.ephemeral_pk, a.ephemeral_sk,
                            a.server_longterm_pk)
      [] a.kind = "Server" ->
            ServerNew(a.stream, a.network_identifier, a.longterm_pk,
                      a.longterm_sk, a.ephemeral_pk, a.ephemeral_sk)
      [] a.kind = "OwningServer" ->
            OwningServerNew(a.stream, a.network_identifier, a.longterm_pk,
                            a.longterm_sk, a.ephemeral_pk, a.ephemeral_sk)
      [] a.kind = "ServerFilter" ->
            ServerFilterNew(a.stream, a.filter_fn, a.network_identifier,
                            a.longterm_pk, a.longterm_sk, a.ephemeral_pk,
                            a.ephemeral_sk)
      [] a.kind = "OwningServerFilter" ->
            OwningServerFilterNew(a.stream, a.filter_fn, a.network_identifier,
                                  a.longterm_pk, a.longterm_sk, a.ephemeral_pk,
                                  a.ephemeral_sk)

RolePoll(self, env, cx) ==
    CASE self.kind = "Client" -> ClientPoll(self, env, cx)
      [] self.kind = "OwningClient" -> OwningClientPoll(self, env, cx)
      [] self.kind = "Server" -> ServerPoll(self, env, cx)
      [] self.kind = "OwningServer" -> OwningServerPoll(self, env, cx)
      [] self.kind = "ServerFilter" -> ServerFilterPoll(self, env, cx)
      [] self.kind = "OwningServerFilter" -> OwningServerFilterPoll(self, env, cx)

\* The choices the surroundings make during one poll of `self`; a choice
\* the poll cannot read is not enumerated.
Contexts(self) ==
    IF self.hs.state = "Done"
    THEN [budget : {0}, fault : {FALSE}, decision : {"pending"},
          again : {"Panic", "Pending"}]
    ELSE [budget : 0..MaxBudget, fault : BOOLEAN,
          decision : IF self.hs.filter_fn = "none" THEN {"pending"} ELSE Decisions,
          again : {"Panic"}]

\* src/lib.rs declares no static item: the process-wide state is empty.
NoStatics == [tag |-> "NoStatics"]

\* The two roles have been constructed; nothing has been polled.
Constructed ==
    /\ supplied \in [initiator : InitiatorArgs, responder : ResponderArgs]
    /\ role = [side \in Sides |-> Construct(supplied[side])]
    /\ wire = [c2s |-> << >>, s2c |-> << >>]
    /\ gate = [calls |-> 0, args |-> << >>, verified |-> << >>,
               value |-> "unresolved"]
    /\ log = [side \in Sides |-> << >>]
    /\ last = [side \in Sides |-> Nothing]
    /\ resolved = [side \in Sides |-> Nothing]
    /\ built = [side \in Sides |-> << >>]
    /\ statics = NoStatics

\* One exchange, alone in its process.
Init ==
    /\ Constructed
    /\ twin = Nothing

\* The caller of `side` polls its role once.  last is what that poll
\* returned, resolved the first Ok(Ready(..)) or Err(..) the role returned,
\* built every BoxDuplex the role's polls have constructed.
Poll(side, cx) ==
    LET out == RolePoll(role[side],
                        [wire |-> wire, gate |-> gate, log |-> log[side],
                         statics |-> statics], cx)
    IN  /\ role' = [role EXCEPT ![side] = out.self]
        /\ statics' = out.statics
        /\ wire' = out.wire
        /\ gate' = out.gate
        /\ log' = [log EXCEPT ![side] = out.log]
        /\ last' = [last EXCEPT ![side] = out.ret]
        /\ resolved' = IF resolved[side] = Nothing /\ out.ret.tag \in {"Ready", "Err"}
                       THEN [resolved EXCEPT ![side] = out.ret]
                       ELSE resolved
        /\ built' = IF "duplex" \in DOMAIN out.ret
                    THEN [built EXCEPT ![side] = Append(@, out.ret.duplex)]
                    ELSE built
        /\ UNCHANGED supplied

PollInitiator ==
    \E cx \in Contexts(role["initiator"]) : Poll("initiator", cx) /\ UNCHANGED twin

PollResponder ==
    \E cx \in Contexts(role["responder"]) : Poll("responder", cx) /\ UNCHANGED twin

Next == PollInitiator \/ PollResponder

Spec == Init /\ [][Next]_vars

----------------------------------------------------------------------------
(* The exchange driven to completion: the two roles run as tasks of an     *)
(* executor over a transport pair in memory, as in the end-to-end          *)
(* scenarios.  The pair fails no operation while both ends exist; a caller *)
(* who gets its end back with an error drops it, and the other end, once   *)
(* all that was written to it has been read, fails its next operation.     *)
(* The network identifier is shared and the initiator is given the         *)
(* responder's longterm public key.                                        *)

Other(side) == IF side = "initiator" THEN "responder" ELSE "initiator"

EndOfStream(side) ==
    /\ role[side].hs.state # "Done"
    /\ resolved[Other(side)].tag = "Err"
    /\ (IF side = "initiator" THEN wire.s2c ELSE wire.c2s) = << >>

\* The choices of the surroundings during one poll of the role of `side`,
\* when the filter function's future may do what `decisions` lists.
DrivenContexts(side, decisions) ==
    {cx \in Contexts(role[side]) :
        /\ cx.fault = EndOfStream(side)
        /\ cx.fault => cx.budget = 0
        /\ cx.decision \in decisions}

DrivenInit ==
    /\ Init
    /\ supplied["initiator"].network_identifier = supplied["responder"].network_identifier
    /\ supplied["initiator"].server_longterm_pk = supplied["responder"].longterm_pk

DriveInitiator ==
    \E cx \in DrivenContexts("initiator", {"pending"}) :
        Poll("initiator", cx) /\ UNCHANGED twin

\* The filter function of a gated responder accepts.
DriveResponder ==
    \E cx \in DrivenContexts("responder", {"pending", "true"}) :
        Poll("responder", cx) /\ UNCHANGED twin

DrivenNext == DriveInitiator \/ DriveResponder

\* A task that can make a step is polled until it does: the executor polls
\* a task whenever the transport or the filter function's future wakes it.
SpecDriven ==
    /\ DrivenInit
    /\ [][DrivenNext]_vars
    /\ WF_vars(DriveInitiator)
    /\ WF_vars(DriveResponder)

\* The same with a gated responder whose filter function always resolves
\* to false.
DenyingInit ==
    /\ DrivenInit
    /\ supplied["responder"].kind \in GatedKinds

DriveResponderDenying ==
    \E cx \in DrivenContexts("responder", {"pending", "false"}) :
        Poll("responder", cx) /\ UNCHANGED twin

DenyingNext == DriveInitiator \/ DriveResponderDenying

SpecDenying ==
    /\ DenyingInit
    /\ [][DenyingNext]_vars
    /\ WF_vars(DriveInitiator)
    /\ WF_vars(DriveResponderDenying)

----------------------------------------------------------------------------
(* A second exchange.  twin holds it as one value, with the fields of the  *)
(* first exchange's variables.                                             *)

NewExchange(args) ==
    [supplied |-> args,
     role |-> [side \in Sides |-> Construct(args[side])],
     wire |-> [c2s |-> << >>, s2c |-> << >>],
     gate |-> [calls |-> 0, args |-> << >>, verified |-> << >>,
               value |-> "unresolved"],
     log |-> [side \in Sides |-> << >>],
     last |-> [side \in Sides |-> Nothing],
     resolved |-> [side \in Sides |-> Nothing],
     built |-> [side \in Sides |-> << >>]]

\* What a poll of the role of `side` of the exchange x leaves behind, when
\* the process-wide state is st; and the exchange x after that poll.
PollOf(x, side, cx, st) ==
    RolePoll(x.role[side],
             [wire |-> x.wire, gate |-> x.gate, log |-> x.log[side],
              statics |-> st], cx)

PolledExchange(x, side, out) ==
    [x EXCEPT !.role[side] = out.self,
              !.wire = out.wire,
              !.gate = out.gate,
              !.log[side] = out.log,
              !.last[side] = out.ret,
              !.resolved[side] = IF @ = Nothing /\ out.ret.tag \in {"Ready", "Err"}
                                 THEN out.ret ELSE @,
              !.built[side] = IF "duplex" \in DOMAIN out.ret
                              THEN Append(@, out.ret.duplex) ELSE @]

----------------------------------------------------------------------------
(* The same exchange twice, with another variant of each role: the twin is *)
(* a run of its own, constructed from the arguments of the first exchange  *)
(* and polled whenever, and under the choices under which, the first is.   *)

\* The key-owning variant of a borrowing role and the other way round; the
\* ungated variant of a gated responder.
Counterpart(kind) ==
    CASE kind = "Client" -> "OwningClient"
      [] kind = "OwningClient" -> "Client"
      [] kind = "Server" -> "OwningServer"
      [] kind = "OwningServer" -> "Server"
      [] kind = "ServerFilter" -> "OwningServerFilter"
      [] kind = "OwningServerFilter" -> "ServerFilter"

Ungated(kind) ==
    CASE kind = "ServerFilter" -> "Server"
      [] kind = "OwningServerFilter" -> "OwningServer"
      [] OTHER -> kind

PollBoth(side, cx) ==
    /\ Poll(side, cx)
    /\ \E out \in {PollOf(twin, side, cx, NoStatics)} :
          twin' = PolledExchange(twin, side, out)

PollBothInitiators == \E cx \in Contexts(role["initiator"]) : PollBoth("initiator", cx)

PollBothResponders == \E cx \in Contexts(role["responder"]) : PollBoth("responder", cx)

TwinnedNext == PollBothInitiators \/ PollBothResponders

\* The twin's roles are the counterparts in ownership of the first's.
OwnershipTwinInit ==
    /\ Constructed
    /\ twin = NewExchange([side \in Sides |->
                  [supplied[side] EXCEPT !.kind = Counterpart(@)]])

SpecOwnershipTwin == OwnershipTwinInit /\ [][TwinnedNext]_vars

\* The first responder is gated, the twin's is the ungated responder of
\* the same ownership, which takes no filter function.
UngatedTwinInit ==
    /\ Constructed
    /\ supplied["responder"].kind \in GatedKinds
    /\ twin = NewExchange([supplied EXCEPT
                  !["responder"].kind = Ungated(@),
                  !["responder"].filter_fn = "none"])

SpecUngatedTwin == UngatedTwinInit /\ [][TwinnedNext]_vars

----------------------------------------------------------------------------
(* Two exchanges at once: the twin is a second handshake of the same       *)
(* process, on a transport pair of its own and with arguments of its own;  *)
(* the polls of the four roles interleave in any order.  The transports    *)
(* fail no operation.                                                      *)

CalmContexts(self) ==
    {cx \in Contexts(self) :
        /\ ~cx.fault
        /\ cx.decision \in {"pending", "true", "false"}}

\* The arguments of a handshake that can succeed.
MatchingArgs ==
    {a \in [initiator : InitiatorArgs, responder : ResponderArgs] :
        /\ a["initiator"].network_identifier = a["responder"].network_identifier
        /\ a["initiator"].server_longterm_pk = a["responder"].longterm_pk
        /\ a["initiator"].longterm_sk = a["initiator"].longterm_pk}

ConcurrentInit ==
    /\ Constructed
    /\ supplied \in MatchingArgs
    /\ supplied["initiator"].kind = "Client"
    /\ supplied["responder"].kind \in {"Server", "ServerFilter"}
    /\ \E a \in MatchingArgs :
          /\ a["initiator"].kind = "OwningClient"
          /\ a["responder"].kind \in {"Server", "OwningServerFilter"}
          /\ twin = NewExchange(a)

PollTwin(side, cx) ==
    \E out \in {PollOf(twin, side, cx, statics)} :
        /\ twin' = PolledExchange(twin, side, out)
        /\ statics' = out.statics
        /\ UNCHANGED exchange

PollFirstInitiator ==
    \E cx \in CalmContexts(role["initiator"]) : Poll("initiator", cx) /\ UNCHANGED twin

PollFirstResponder ==
    \E cx \in CalmContexts(role["responder"]) : Poll("responder", cx) /\ UNCHANGED twin

PollTwinInitiator ==
    \E cx \in CalmContexts(twin.role["initiator"]) : PollTwin("initiator", cx)

PollTwinResponder ==
    \E cx \in CalmContexts(twin.role["responder"]) : PollTwin("responder", cx)

ConcurrentNext ==
    \/ PollFirstInitiator
    \/ PollFirstResponder
    \/ PollTwinInitiator
    \/ PollTwinResponder

SpecConcurrent == ConcurrentInit /\ [][ConcurrentNext]_vars

----------------------------------------------------------------------------
(* Vocabulary of the claims.                                               *)

Gated(side) == supplied[side].kind \in GatedKinds

\* Everything a role's polls have returned that the state still shows.
Returned(side) == {last[side], resolved[side]}

ErrorKinds == {"HandshakeError", "Rejected", "FilterFnError"}

\* What the handshakers of `side` have reported, and how often each
\* message of the exchange has been written on that side.
Reports(side) ==
    {log[side][i].result : i \in {j \in DOMAIN log[side] : log[side][j].ev = "report"}}
Count(side, ev) == Cardinality({i \in DOMAIN log[side] : log[side][i].ev = ev})

\* A handshaker of `side` has reported success, or an error.
AuthSucceeded(side) == \E r \in Reports(side) : r.tag = "Ready"
AuthFailed(side) == \E r \in Reports(side) : r.tag = "Err"

\* The responder has written the last message of the exchange.
Msg4Written == Count("responder", "Msg4") > 0

\* A BoxDuplex with all its parts, on the transport of `side`.
CompleteDuplex(d, side) ==
    /\ DOMAIN d = {"stream", "enc_key", "dec_key", "enc_nonce", "dec_nonce"}
    /\ d.stream = supplied[side].stream
    /\ d.enc_key.sort = "key"
    /\ d.dec_key.sort = "key"
    /\ d.enc_nonce.sort = "nonce"
    /\ d.dec_nonce.sort = "nonce"

\* What a role of `side` may resolve with: success, or failure.
SuccessOf(r, side) ==
    /\ r.tag = "Ready"
    /\ DOMAIN r = (IF side = "responder" THEN {"tag", "duplex", "peer_pk"}
                                         ELSE {"tag", "duplex"})
    /\ CompleteDuplex(r.duplex, side)
    /\ side = "responder" => r.peer_pk \in Keys
    /\ AuthSucceeded(side)
    /\ Gated(side) => gate.value = "true"

FailureOf(r, side) ==
    /\ r.tag = "Err"
    /\ DOMAIN r = {"tag", "err", "stream"}
    /\ r.err.kind \in (IF Gated(side) THEN ErrorKinds ELSE {"HandshakeError"})
    /\ r.stream.open

\* The writes of the handshake, and the elements of a sequence.
HandshakeWrites == {"Msg1", "Msg2", "Msg3", "Msg4"}
Range(s) == {s[i] : i \in DOMAIN s}

\* Who holds the transport of `side`: the role (inside its handshaker), the
\* caller (handed back with the error the role resolved with), a BoxDuplex.
RoleHolds(side) == role[side].hs.stream = supplied[side].stream
CallerHolds(side) ==
    /\ resolved[side].tag = "Err"
    /\ resolved[side].stream = supplied[side].stream
FramersHolding(side) ==
    {i \in DOMAIN built[side] : built[side][i].stream = supplied[side].stream}
Owners(side) ==
    (IF RoleHolds(side) THEN 1 ELSE 0) + (IF CallerHolds(side) THEN 1 ELSE 0)
        + Cardinality(FramersHolding(side))

\* The initiator's longterm secret key is the one of its public key.
InitiatorKeyPairValid ==
    supplied["initiator"].longterm_sk = supplied["initiator"].longterm_pk

\* Both roles have resolved with a BoxDuplex; both with a handshake error.
BothSucceeded == \A side \in Sides : resolved[side].tag = "Ready"
BothFailedHandshake ==
    \A side \in Sides :
        /\ resolved[side].tag = "Err"
        /\ resolved[side].err.kind = "HandshakeError"

\* The BoxDuplex made of what the handshaker's report `rep` carries: its
\* stream, and the four values of its outcome in the order of BoxDuplex::new.
FramedFrom(rep) ==
    [stream |-> rep.stream,
     enc_key |-> rep.outcome.encryption_key,
     dec_key |-> rep.outcome.decryption_key,
     enc_nonce |-> rep.outcome.encryption_nonce,
     dec_nonce |-> rep.outcome.decryption_nonce]

\* What a poll of the role of `side` in this state returns under the
\* choices cx, and what the poll of its handshaker returns to it.
RoleReturn(side, cx) ==
    RolePoll(role[side], [wire |-> wire, gate |-> gate, log |-> log[side], statics |-> statics], cx).ret
HandshakerReturn(side, cx) ==
    HandshakerPoll(role[side].hs, [wire |-> wire, gate |-> gate, log |-> log[side], statics |-> statics], cx).ret

\* A step of the twin exchange as it runs alone: one poll of one of its
\* roles, on the twin's own state and the process-wide state.
TwinAlone ==
    \E side \in Sides : \E cx \in Contexts(twin.role[side]) :
        \E out \in {PollOf(twin, side, cx, statics)} :
            /\ twin' = PolledExchange(twin, side, out)
            /\ statics' = out.statics

\* The two roles were constructed for different networks.
DifferentNetworks ==
    supplied["initiator"].network_identifier # supplied["responder"].network_identifier

----------------------------------------------------------------------------
(* C1: on every failure path of every role (handshake error, denial,       *)
(* error of the authorization mechanism), the transport returned with the  *)
(* error is the transport that was passed to the role's constructor: the   *)
(* same object, and still open.                                            *)

C1_TransportConservation ==
    \A side \in Sides : \A r \in Returned(side) :
        r.tag = "Err" => r.stream = supplied[side].stream

\* A denial on the responder's side and a handshake error on the
\* initiator's, each with its transport.
C1_Witness ==
    /\ resolved["responder"].tag = "Err"
    /\ resolved["responder"].err.kind = "Rejected"
    /\ resolved["responder"].stream = StreamOf("responder")
    /\ resolved["initiator"].tag = "Err"
    /\ resolved["initiator"].err.kind = "HandshakeError"
    /\ resolved["initiator"].stream = StreamOf("initiator")

----------------------------------------------------------------------------
(* C2: whatever the polls (also polls of a role that has resolved), a role *)
(* constructs at most one BoxDuplex, and constructs one only after its     *)
(* handshaker has reported success and, for a gated role, after the filter *)
(* function's future has resolved to true.                                 *)

C2_AtMostOneDuplex ==
    \A side \in Sides :
        /\ Len(built[side]) <= 1
        /\ Len(built[side]) = 1 =>
              /\ AuthSucceeded(side)
              /\ Gated(side) => gate.value = "true"

\* A gated responder that has built its duplex and was polled again.
C2_Witness ==
    /\ Gated("responder")
    /\ Len(built["responder"]) = 1
    /\ resolved["responder"].tag = "Ready"
    /\ last["responder"].tag \in {"Panic", "Pending"}

----------------------------------------------------------------------------
(* C3: when the filter function's future of a gated responder resolves to  *)
(* false, the role resolves with the Rejected error, constructs no         *)
(* BoxDuplex then or later, and returns the transport it was given.        *)

C3_DenialShortCircuitsFraming ==
    (Gated("responder") /\ gate.value = "false") =>
        /\ resolved["responder"] = Err(Rejected, supplied["responder"].stream)
        /\ built["responder"] = << >>

\* The denial has been returned and the role was polled again after it.
C3_Witness ==
    /\ Gated("responder")
    /\ gate.value = "false"
    /\ resolved["responder"].tag = "Err"
    /\ last["responder"].tag \in {"Panic", "Pending"}

----------------------------------------------------------------------------
(* C4: a gated responder's filter function is called exactly once when the *)
(* peer has been authenticated and not at all when the exchange fails      *)
(* before that; it is called with the key that was verified, never with an *)
(* unverified one; and the handshake completes (msg4 is written, the role  *)
(* resolves with its duplex) only after the call's future has resolved,    *)
(* to true.                                                                *)

C4_GateOrdering ==
    Gated("responder") =>
        /\ gate.calls = (IF role["responder"].hs.verified THEN 1 ELSE 0)
        /\ Len(gate.args) = gate.calls
        /\ \A i \in DOMAIN gate.args :
              /\ gate.verified[i]
              /\ gate.args[i] = role["responder"].hs.peer_pk
              /\ gate.args[i] = supplied["initiator"].longterm_pk
        /\ (\/ AuthSucceeded("responder")
            \/ Msg4Written
            \/ resolved["responder"].tag = "Ready") => gate.value = "true"

\* The filter function has been called and the role is suspended on its
\* future.
C4_Witness ==
    /\ Gated("responder")
    /\ gate.calls = 1
    /\ gate.value = "unresolved"
    /\ last["responder"] = Pending
    /\ resolved["responder"] = Nothing

----------------------------------------------------------------------------
(* C5: what a role resolves with is of exactly one of two kinds: a         *)
(* complete BoxDuplex (for a responder, with the peer's public key), built *)
(* after a handshake that succeeded in full; or an error of the role's     *)
(* error type together with the transport.                                 *)

C5_BinaryOutcome ==
    \A side \in Sides :
        /\ last[side].tag \in {"Nothing", "Pending", "Panic", "Ready", "Err"}
        /\ resolved[side] # Nothing =>
              \/ SuccessOf(resolved[side], side)
              \/ FailureOf(resolved[side], side)

\* One role of the exchange has resolved with a duplex, the other with an
\* error.
C5_Witness ==
    /\ resolved["responder"].tag = "Ready"
    /\ resolved["initiator"].tag = "Err"

----------------------------------------------------------------------------
(* C6: when a role's handshaker reports an error, the role resolves with   *)
(* that error (and its transport), not with success; and the handshake is  *)
(* run at most once per role: no message of the exchange is written a      *)
(* second time and no second result is reported.                           *)

C6_ErrorsPropagateNoRetry ==
    \A side \in Sides :
        /\ \A r \in Reports(side) :
              r.tag = "Err" => (resolved[side] = r /\ built[side] = << >>)
        /\ \A ev \in {"Msg1", "Msg2", "Msg3", "Msg4", "report"} :
              Count(side, ev) <= 1

\* The initiator's handshaker has reported an error, and the role was polled
\* again after it.
C6_Witness ==
    /\ AuthFailed("initiator")
    /\ resolved["initiator"].tag = "Err"
    /\ last["initiator"].tag \in {"Panic", "Pending"}

----------------------------------------------------------------------------
(* C7: the error a gated responder resolves with tells the cause:          *)
(* HandshakeError when the exchange failed, Rejected when the filter       *)
(* function's future resolved to false, FilterFnError with the future's    *)
(* own error when that future failed.                                      *)

C7_DistinctErrors ==
    (Gated("responder") /\ resolved["responder"].tag = "Err") =>
        LET e == resolved["responder"].err
        IN  /\ e.kind \in ErrorKinds
            /\ (e.kind = "Rejected") <=> (gate.value = "false")
            /\ (e.kind = "FilterFnError") <=> (gate.value \in FilterErrors)
            /\ (e.kind = "FilterFnError") => (e = FilterFnError(gate.value))
            /\ (e.kind = "HandshakeError") <=> (gate.value \in {"unresolved", "true"})

\* The filter function's future failed, and the role says so.
C7_Witness ==
    /\ Gated("responder")
    /\ gate.value = "lookup_timeout"
    /\ resolved["responder"].tag = "Err"
    /\ resolved["responder"].err = FilterFnError("lookup_timeout")

----------------------------------------------------------------------------
(* C8: the public key a responder yields on success is the longterm public *)
(* key the initiator ran the exchange with, and the initiator holds its    *)
(* secret half.                                                            *)

C8_IdentityBinding ==
    \A r \in Returned("responder") :
        r.tag = "Ready" =>
            /\ r.peer_pk = supplied["initiator"].longterm_pk
            /\ r.peer_pk = supplied["initiator"].longterm_sk

\* A responder has yielded the key of an initiator that is not itself.
C8_Witness ==
    /\ resolved["responder"].tag = "Ready"
    /\ resolved["responder"].peer_pk # supplied["responder"].longterm_pk

----------------------------------------------------------------------------
(* C9: when both roles of an exchange resolve with a duplex, each duplex   *)
(* encrypts with the key and nonce the other decrypts with.                *)

C9_Symmetry ==
    (resolved["initiator"].tag = "Ready" /\ resolved["responder"].tag = "Ready") =>
        LET i == resolved["initiator"].duplex
            r == resolved["responder"].duplex
        IN  /\ i.enc_key = r.dec_key
            /\ i.enc_nonce = r.dec_nonce
            /\ r.enc_key = i.dec_key
            /\ r.enc_nonce = i.dec_nonce

\* Both have resolved with a duplex whose two directions differ.
C9_Witness ==
    /\ resolved["initiator"].tag = "Ready"
    /\ resolved["responder"].tag = "Ready"
    /\ resolved["initiator"].duplex.enc_key # resolved["initiator"].duplex.dec_key

----------------------------------------------------------------------------
(* C10: when the two roles of an exchange were constructed with different  *)
(* network identifiers, neither ever resolves with a duplex.               *)

C10_NoCrossNetwork ==
    DifferentNetworks =>
        \A side \in Sides :
            /\ built[side] = << >>
            /\ \A r \in Returned(side) : r.tag # "Ready"

\* An exchange across two networks in which both roles have resolved.
C10_Witness ==
    /\ DifferentNetworks
    /\ resolved["responder"].tag = "Err"
    /\ resolved["responder"].err = HandshakeError("InvalidMsg1")
    /\ resolved["initiator"].tag = "Err"

----------------------------------------------------------------------------
(* C13: in every state in which a role has not resolved (its handshake is  *)
(* running, or the filter function's future is awaited), the role has      *)
(* constructed no BoxDuplex, and nothing but the messages of the handshake *)
(* has been written to the transport pair; the role, dropped there, leaves *)
(* a transport without any part of an encrypted frame on it.               *)

C13_NoFramingBeforeResolution ==
    \A side \in Sides :
        resolved[side] = Nothing =>
            /\ built[side] = << >>
            /\ \A i \in DOMAIN log[side] : log[side][i].ev \in HandshakeWrites
            /\ \A m \in Range(wire.c2s) \cup Range(wire.s2c) : m.type \in HandshakeWrites

\* A gated responder that awaits the filter function's future, polled while
\* it waits, with the initiator waiting for msg4: both unresolved, three
\* messages written.
C13_Witness ==
    /\ Gated("responder")
    /\ role["responder"].hs.state = "Filter"
    /\ last["responder"] = Pending
    /\ role["initiator"].hs.state = "ReadMsg4"
    /\ last["initiator"] = Pending
    /\ resolved = [side \in Sides |-> Nothing]
    /\ built = [side \in Sides |-> << >>]

----------------------------------------------------------------------------
(* C14: in every reachable state the transport of each side has exactly    *)
(* one owner: the role while it has not resolved, the caller (who got it   *)
(* back with the error) once the role has failed, the BoxDuplex once the   *)
(* role has succeeded; a role that has resolved holds the transport no     *)
(* longer.                                                                 *)

C14_SingleOwner ==
    \A side \in Sides :
        /\ Owners(side) = 1
        /\ resolved[side] = Nothing => RoleHolds(side)
        /\ resolved[side].tag = "Err" => CallerHolds(side)
        /\ resolved[side].tag = "Ready" =>
              /\ FramersHolding(side) # {}
              /\ resolved[side].duplex.stream = supplied[side].stream
        /\ resolved[side] # Nothing => role[side].hs.stream = NoStream

\* The three owners in one state: the responder's transport is in its
\* BoxDuplex, the initiator's back with its caller, and the roles, polled
\* again, hold nothing.
C14_Witness ==
    /\ resolved["responder"].tag = "Ready"
    /\ resolved["initiator"].tag = "Err"
    /\ last["initiator"].tag \in {"Panic", "Pending"}
    /\ last["responder"].tag \in {"Panic", "Pending"}
    /\ ~RoleHolds("initiator")
    /\ ~RoleHolds("responder")

----------------------------------------------------------------------------
(* C15: an initiator and a responder on a transport pair, with the same    *)
(* network identifier, the initiator given the responder's longterm public *)
(* key and each side holding a valid keypair, both driven fairly: both     *)
(* eventually resolve, and both resolve with a BoxDuplex.                  *)

C15_BothEventuallySucceed == InitiatorKeyPairValid ~> BothSucceeded

\* Both have succeeded in an exchange of two different keypairs, with
\* duplexes whose keys mirror each other.
C15_Witness ==
    /\ InitiatorKeyPairValid
    /\ supplied["initiator"].longterm_pk # supplied["responder"].longterm_pk
    /\ BothSucceeded
    /\ resolved["initiator"].duplex.enc_key = resolved["responder"].duplex.dec_key
    /\ resolved["responder"].peer_pk = supplied["initiator"].longterm_pk

----------------------------------------------------------------------------
(* C16: in the same exchange, but with an initiator whose longterm secret  *)
(* key is not the one of its longterm public key, neither side ever        *)
(* produces a BoxDuplex, and both sides eventually resolve with a          *)
(* handshake error.                                                        *)

C16_WrongSecretKeyFailsBoth ==
    ~InitiatorKeyPairValid =>
        /\ [](\A side \in Sides :
                /\ built[side] = << >>
                /\ \A r \in Returned(side) : r.tag # "Ready"
                /\ resolved[side].tag = "Err" => resolved[side].err.kind = "HandshakeError")
        /\ <>BothFailedHandshake

\* The responder has refused msg3, the initiator's read of msg4 has failed,
\* and each caller has its transport back.
C16_Witness ==
    /\ ~InitiatorKeyPairValid
    /\ resolved["responder"] = Err(HandshakeError("InvalidMsg3"), StreamOf("responder"))
    /\ resolved["initiator"] = Err(HandshakeError("IoError"), StreamOf("initiator"))
    /\ built = [side \in Sides |-> << >>]

----------------------------------------------------------------------------
(* C17: an initiator against a gated responder whose filter function       *)
(* always resolves to false: no poll of the initiator ever returns a       *)
(* BoxDuplex (nor does one of the responder), and when the initiator's     *)
(* keypair is valid, so that the handshake gets as far as the filter       *)
(* function, the responder eventually resolves with the Rejected error and *)
(* the initiator eventually resolves with a handshake error.               *)

C17_DenialSeenByBoth ==
    /\ [](\A side \in Sides :
            /\ built[side] = << >>
            /\ \A r \in Returned(side) : r.tag # "Ready")
    /\ InitiatorKeyPairValid =>
          /\ <>(resolved["responder"] = Err(Rejected, supplied["responder"].stream))
          /\ <>(/\ resolved["initiator"].tag = "Err"
                /\ resolved["initiator"].err.kind = "HandshakeError")

\* The filter function was asked about the initiator's proven key and said
\* no; the responder has the denial, the initiator a failed transport.
C17_Witness ==
    /\ InitiatorKeyPairValid
    /\ gate.value = "false"
    /\ gate.args = << supplied["initiator"].longterm_pk >>
    /\ resolved["responder"] = Err(Rejected, StreamOf("responder"))
    /\ resolved["initiator"] = Err(HandshakeError("IoError"), StreamOf("initiator"))
    /\ ~Msg4Written

----------------------------------------------------------------------------
(* C19: whenever a role succeeds, the BoxDuplex it yields was constructed  *)
(* from the stream its handshaker handed back and from exactly the four    *)
(* values of the handshaker's outcome, unmodified and in the order         *)
(* encryption key, decryption key, encryption nonce, decryption nonce; a   *)
(* responder role yields, with it, exactly the outcome's peer longterm     *)
(* public key.                                                             *)

C19_FramedFromOutcome ==
    \A side \in Sides :
        /\ \A r \in Returned(side) :
              r.tag = "Ready" =>
                  \E rep \in Reports(side) :
                      /\ rep.tag = "Ready"
                      /\ r.duplex = FramedFrom(rep)
                      /\ side = "responder" => r.peer_pk = rep.outcome.peer_longterm_pk
        /\ \A i \in DOMAIN built[side] :
              \E rep \in Reports(side) :
                  rep.tag = "Ready" /\ built[side][i] = FramedFrom(rep)

\* Both sides have succeeded in an exchange in which the four values of an
\* outcome are four different values, so that a swap would show.
C19_Witness ==
    /\ BothSucceeded
    /\ \A side \in Sides :
          \E rep \in Reports(side) :
              /\ rep.tag = "Ready"
              /\ rep.outcome.encryption_key # rep.outcome.decryption_key
              /\ rep.outcome.encryption_nonce # rep.outcome.decryption_nonce
              /\ rep.outcome.peer_longterm_pk # supplied[side].longterm_pk

----------------------------------------------------------------------------
(* C20: framing is no suspension point and cannot fail.  In no reachable   *)
(* state has a handshaker reported success while its role is unresolved or *)
(* has resolved with an error: the role has resolved with the BoxDuplex,   *)
(* built in the poll of the report.  And in every reachable state, under   *)
(* every choice of the surroundings, a poll of the role returns Pending    *)
(* exactly when the poll of its handshaker does, and a BoxDuplex exactly   *)
(* when the handshaker reports success.                                    *)

C20_FramingImmediate ==
    \A side \in Sides :
        /\ AuthSucceeded(side) =>
              /\ resolved[side].tag = "Ready"
              /\ Len(built[side]) = 1
        /\ \A cx \in Contexts(role[side]) :
              /\ RoleReturn(side, cx).tag = "Pending" <=> HandshakerReturn(side, cx).tag = "Pending"
              /\ RoleReturn(side, cx).tag = "Ready" <=> HandshakerReturn(side, cx).tag = "Ready"
              /\ "duplex" \in DOMAIN RoleReturn(side, cx) <=> HandshakerReturn(side, cx).tag = "Ready"

\* The poll of the responder that has just returned is the one in which its
\* handshaker reported success, and it returned the BoxDuplex; the
\* initiator, whose handshaker waits for msg4, was told Pending.
C20_Witness ==
    /\ last["responder"].tag = "Ready"
    /\ log["responder"][Len(log["responder"])].ev = "report"
    /\ log["responder"][Len(log["responder"])].result.tag = "Ready"
    /\ last["responder"].duplex = FramedFrom(log["responder"][Len(log["responder"])].result)
    /\ role["initiator"].hs.state = "ReadMsg4"
    /\ last["initiator"] = Pending

----------------------------------------------------------------------------
(* C11: a borrowing role and the key-owning role of the same kind          *)
(* (Client and OwningClient, Server and OwningServer, ServerFilter and     *)
(* OwningServerFilter), constructed from the same arguments and polled     *)
(* under the same choices of the surroundings, return the same at every    *)
(* poll: Pending, the same BoxDuplex (with the same peer key, for a        *)
(* responder) or the same error with the same stream; and they leave the   *)
(* same messages on the transport pair and the same calls of the filter    *)
(* function.                                                               *)

C11_OwnershipVariantsAgree ==
    /\ \A side \in Sides :
          /\ twin.supplied[side].kind = Counterpart(supplied[side].kind)
          /\ twin.last[side] = last[side]
          /\ twin.resolved[side] = resolved[side]
          /\ twin.built[side] = built[side]
    /\ twin.wire = wire
    /\ twin.gate = gate

\* A borrowing initiator with a gated borrowing responder, and their owning
\* twins: the responders have succeeded with a duplex and the peer's key,
\* the initiators have failed on their transports.
C11_Witness ==
    /\ supplied["initiator"].kind = "Client"
    /\ twin.supplied["initiator"].kind = "OwningClient"
    /\ supplied["responder"].kind = "ServerFilter"
    /\ twin.supplied["responder"].kind = "OwningServerFilter"
    /\ resolved["responder"].tag = "Ready"
    /\ twin.resolved["responder"].tag = "Ready"
    /\ resolved["initiator"].tag = "Err"
    /\ twin.resolved["initiator"].tag = "Err"

----------------------------------------------------------------------------
(* C12: a gated responder whose filter function resolves to true, and the  *)
(* ungated responder of the same ownership constructed from the same       *)
(* arguments in the same exchange: when both have succeeded, the gated     *)
(* role's result (the BoxDuplex with its key material, and the peer's      *)
(* longterm public key) is the ungated role's result; and so are the       *)
(* results of the initiators they talked to.                               *)

C12_AcceptedGateAddsNothing ==
    /\ twin.supplied["responder"].kind = Ungated(supplied["responder"].kind)
    /\ resolved["responder"].tag = "Ready" => gate.value = "true"
    /\ \A side \in Sides :
          (resolved[side].tag = "Ready" /\ twin.resolved[side].tag = "Ready") =>
              /\ resolved[side] = twin.resolved[side]
              /\ built[side] = twin.built[side]

\* The filter function has accepted the initiator's key, which is not the
\* responder's own; the gated responder and the ungated one have both
\* succeeded, and so have their initiators.
C12_Witness ==
    /\ Gated("responder")
    /\ twin.supplied["responder"].kind \notin GatedKinds
    /\ gate.value = "true"
    /\ gate.args = << supplied["initiator"].longterm_pk >>
    /\ supplied["initiator"].longterm_pk # supplied["responder"].longterm_pk
    /\ BothSucceeded
    /\ \A side \in Sides : twin.resolved[side].tag = "Ready"

----------------------------------------------------------------------------
(* C18: two handshakes that run at once on different transport pairs do    *)
(* not touch each other.  Under every interleaving of the polls of their   *)
(* roles, what happens to either exchange is a run of that exchange alone: *)
(* every step is a poll of the first exchange as it is when alone, or      *)
(* leaves the first exchange and the process-wide state as they are; and   *)
(* likewise for the second.  So what a role returns (Pending, its duplex   *)
(* and peer key, its error and stream) is what it returns when alone, and  *)
(* no state is shared that a poll changes.                                 *)

C18_ConcurrentHandshakesIndependent ==
    [][/\ Next \/ UNCHANGED <<exchange, statics>>
       /\ TwinAlone \/ UNCHANGED <<twin, statics>>]_vars

\* Two Server roles of one process have both succeeded, with different
\* peers and different keys, and so have their initiators; the process-wide
\* state is as it was.
C18_Witness ==
    /\ supplied["responder"].kind = "Server"
    /\ twin.supplied["responder"].kind = "Server"
    /\ BothSucceeded
    /\ \A side \in Sides : twin.resolved[side].tag = "Ready"
    /\ resolved["responder"].peer_pk # twin.resolved["responder"].peer_pk
    /\ resolved["responder"].duplex.enc_key # twin.resolved["responder"].duplex.enc_key
    /\ statics = NoStatics

============================================================================
